---- MODULE Spec2Model ----
(***************************************************************************)
(* State-machine model of the QuantumPhaseEstimation template              *)
(* (src/pennylane/templates/subroutines/qpe.py, lines 24-125).             *)
(*                                                                         *)
(* One call of the template is a sequence of steps, one per statement of   *)
(* the function body; pc names the statement about to run.  The operations *)
(* the template queues are collected, in order, in `emitted`.              *)
(***************************************************************************)
EXTENDS Integers, Sequences, FiniteSets, TLC

(* ------------------------------ bounds -------------------------------- *)

NumWires == 4        \* wire labels are 0 .. NumWires-1
MaxTargetLen == 2    \* longest target register passed by a caller
MaxEstLen == 3       \* longest estimation register passed by a caller
RepeatNumWires == 3  \* wire labels used by the repeated calls of SpecCalls
RepeatEstLen == 2    \* longest estimation register in SpecCalls

(* ----------------------------- matrices ------------------------------- *)
(* A matrix is a sequence of rows.  The entries are integers: the products *)
(* of the matrices below stay in {-1, 0, 1}, where numpy's arithmetic is   *)
(* exact.                                                                  *)

RECURSIVE DotFrom(_, _, _, _, _)
DotFrom(A, B, r, c, k) ==
    IF k > Len(B) THEN 0 ELSE A[r][k] * B[k][c] + DotFrom(A, B, r, c, k + 1)

RECURSIVE RowFrom(_, _, _, _)
RowFrom(A, B, r, c) ==
    IF c > Len(B[1]) THEN <<>> ELSE <<DotFrom(A, B, r, c, 1)>> \o RowFrom(A, B, r, c + 1)

RECURSIVE RowsFrom(_, _, _)
RowsFrom(A, B, r) ==
    IF r > Len(A) THEN <<>> ELSE <<RowFrom(A, B, r, 1)>> \o RowsFrom(A, B, r + 1)

\* A @ B (line 118), row by column
MatMul(A, B) == RowsFrom(A, B, 1)

\* U^k by k-1 successive multiplications by U (k >= 1): the reference the
\* repeated-squaring ladder is compared with
RECURSIVE MatPow(_, _)
MatPow(U, k) == IF k <= 1 THEN U ELSE MatMul(U, MatPow(U, k - 1))

RECURSIVE Pow2(_)
Pow2(k) == IF k <= 0 THEN 1 ELSE 2 * Pow2(k - 1)

\* unitaries a caller passes: 1x1 of order 2, 2x2 of order 2 (Pauli X),
\* 2x2 of order 4 (rotation by a quarter turn), 4x4 of order 8
\* (cyclic shift with one sign flip)
N1 == << <<-1>> >>
PauliX == << <<0, 1>>, <<1, 0>> >>
Rot4 == << <<0, -1>>, <<1, 0>> >>
Shift8 == << <<0, 0, 0, -1>>, <<1, 0, 0, 0>>, <<0, 1, 0, 0>>, <<0, 0, 1, 0>> >>
Unitaries == {N1, PauliX, Rot4, Shift8}

(* ------------------------------- wires -------------------------------- *)

WireIds == 0..(NumWires - 1)

Range(s) == {s[k] : k \in 1..Len(s)}

\* the ordered collections of distinct wires of length <= n over S
DistinctSeqs(S, n) ==
    UNION {{s \in [1..k -> S] : \A a, b \in 1..k : a # b => s[a] # s[b]} : k \in 0..n}

\* what a caller may pass as a register (docstring, lines 58-60): a single
\* wire label or a sequence of distinct labels
IntArg(w) == [kind |-> "int", w |-> w, ws |-> <<>>]
SeqArg(s) == [kind |-> "seq", w |-> 0, ws |-> s]
RegisterArgs(S, n) == {IntArg(w) : w \in S} \cup {SeqArg(s) : s \in DistinctSeqs(S, n)}

\* Wires(x): a single label becomes a one-wire register, an iterable keeps
\* its order
Wires(x) == IF x.kind = "int" THEN <<x.w>> ELSE x.ws

\* Wires.shared_wires([a, b]): the wires of a that are also in b, in a's order
shared_wires(a, b) == SelectSeq(a, LAMBDA w : w \in Range(b))

(* ----------------------------- operations ----------------------------- *)

Hadamard(wire) == [name |-> "Hadamard", wires |-> <<wire>>]

ControlledQubitUnitary(u, control, wires) ==
    [name |-> "ControlledQubitUnitary", U |-> u, control_wires |-> <<control>>,
     wires |-> wires]

\* qml.QFT(wires=...).inv()
QFTinv(wires) == [name |-> "QFT", wires |-> wires, inverse |-> TRUE]

\* ControlledQubitUnitary rejects a matrix whose dimension is not
\* 2^(number of target wires)
DimensionMatches(u, wires) == Len(u) = Pow2(Len(wires))

(* ------------------------------- state -------------------------------- *)

VARIABLES
    unitary,              \* the caller's matrix (parameter `unitary`)
    caller_target,        \* the caller's target_wires object
    caller_estimation,    \* the caller's estimation_wires object
    pc,                   \* the statement about to run, or "done" / "failed"
    target_wires,         \* local, after line 109
    estimation_wires,     \* local, after line 110
    unitary_powers,       \* local list of line 115
    i,                    \* loop variable of line 117
    j,                    \* pairs consumed from zip(...) of line 121
    emitted,              \* operations queued by this call, in order
    error,                \* exception raised by this call, or "none"
    n_matmul,             \* evaluations of `@` (line 118) in this call
    overlap_checked,      \* the condition of line 112 has been evaluated
    entry,                \* the arguments as they were when the call began
    history               \* the first completed call: arguments and outcome

vars == <<unitary, caller_target, caller_estimation, pc, target_wires,
          estimation_wires, unitary_powers, i, j, emitted, error, n_matmul,
          overlap_checked, entry, history>>

args == <<unitary, caller_target, caller_estimation>>
locals == <<target_wires, estimation_wires, unitary_powers, i, j>>
record == <<entry, history>>

\* a fresh activation of QuantumPhaseEstimation(u, t, e) (line 25)
Enter(u, t, e) ==
    /\ unitary = u
    /\ caller_target = t
    /\ caller_estimation = e
    /\ pc = "wrap_target"
    /\ target_wires = <<>>
    /\ estimation_wires = <<>>
    /\ unitary_powers = <<>>
    /\ i = 0
    /\ j = 0
    /\ emitted = <<>>
    /\ error = "none"
    /\ n_matmul = 0
    /\ overlap_checked = FALSE
    /\ entry = <<u, t, e>>

Init ==
    /\ \E u \in Unitaries, t \in RegisterArgs(WireIds, MaxTargetLen),
          e \in RegisterArgs(WireIds, MaxEstLen) : Enter(u, t, e)
    /\ history = <<>>

(* ------------------------------ actions ------------------------------- *)

\* line 109: target_wires = Wires(target_wires)
WrapTarget ==
    /\ pc = "wrap_target"
    /\ target_wires' = Wires(caller_target)
    /\ pc' = "wrap_estimation"
    /\ UNCHANGED <<args, estimation_wires, unitary_powers, i, j, emitted, error,
                   n_matmul, overlap_checked, record>>

\* line 110: estimation_wires = Wires(estimation_wires)
WrapEstimation ==
    /\ pc = "wrap_estimation"
    /\ estimation_wires' = Wires(caller_estimation)
    /\ pc' = "check"
    /\ UNCHANGED <<args, target_wires, unitary_powers, i, j, emitted, error,
                   n_matmul, overlap_checked, record>>

\* variant of CheckShared: the first squaring is done before the registers
\* are compared
CheckShared_afterSquare ==
    /\ pc = "check"
    /\ overlap_checked' = TRUE
    /\ unitary_powers' = <<MatMul(unitary, unitary), unitary>>
    /\ n_matmul' = n_matmul + 1
    /\ IF Len(shared_wires(target_wires, estimation_wires)) # 0
       THEN /\ error' = "QuantumFunctionError"
            /\ pc' = "failed"
       ELSE /\ error' = error
            /\ pc' = "init_powers"
    /\ UNCHANGED <<args, target_wires, estimation_wires, i, j, emitted, record>>

\* variant of CheckShared: an empty estimation register is rejected too
CheckShared_guardEmpty ==
    /\ pc = "check"
    /\ overlap_checked' = TRUE
    /\ IF Len(shared_wires(target_wires, estimation_wires)) # 0
          \/ Len(estimation_wires) = 0
       THEN /\ error' = "QuantumFunctionError"
            /\ pc' = "failed"
       ELSE /\ error' = error
            /\ pc' = "init_powers"
    /\ UNCHANGED <<args, locals, emitted, n_matmul, record>>

\* variant of CheckShared: the comparison never raises
CheckShared_skip ==
    /\ pc = "check"
    /\ overlap_checked' = TRUE
    /\ error' = error
    /\ pc' = "init_powers"
    /\ UNCHANGED <<args, locals, emitted, n_matmul, record>>

\* variant of CheckShared: raises only when the two registers are equal
CheckShared_equal ==
    /\ pc = "check"
    /\ overlap_checked' = TRUE
    /\ IF target_wires = estimation_wires
       THEN /\ error' = "QuantumFunctionError"
            /\ pc' = "failed"
       ELSE /\ error' = error
            /\ pc' = "init_powers"
    /\ UNCHANGED <<args, locals, emitted, n_matmul, record>>

\* lines 112-113: raise QuantumFunctionError when the registers share a wire
CheckShared ==
    /\ pc = "check"
    /\ overlap_checked' = TRUE
    /\ IF Len(shared_wires(target_wires, estimation_wires)) # 0
       THEN /\ error' = "QuantumFunctionError"
            /\ pc' = "failed"
       ELSE /\ error' = error
            /\ pc' = "init_powers"
    /\ UNCHANGED <<args, locals, emitted, n_matmul, record>>

\* line 115: unitary_powers = [unitary]
InitPowers ==
    /\ pc = "init_powers"
    /\ unitary_powers' = <<unitary>>
    /\ i' = 0
    /\ pc' = "square"
    /\ UNCHANGED <<args, target_wires, estimation_wires, j, emitted, error,
                   n_matmul, overlap_checked, record>>

\* variant of LoopSquare: range(len(estimation_wires)), one squaring too many
LoopSquare_extra ==
    /\ pc = "square"
    /\ i < Len(estimation_wires)
    /\ LET new_power == MatMul(unitary_powers[1], unitary_powers[1])
       IN unitary_powers' = <<new_power>> \o unitary_powers
    /\ n_matmul' = n_matmul + 1
    /\ i' = i + 1
    /\ UNCHANGED <<args, pc, target_wires, estimation_wires, j, emitted, error,
                   overlap_checked, record>>

\* variant of LoopSquare: the product is written into the caller's matrix
LoopSquare_inplace ==
    /\ pc = "square"
    /\ i < Len(estimation_wires) - 1
    /\ LET new_power == MatMul(unitary_powers[1], unitary_powers[1])
       IN /\ unitary_powers' = <<new_power>> \o unitary_powers
          /\ unitary' = new_power
    /\ n_matmul' = n_matmul + 1
    /\ i' = i + 1
    /\ UNCHANGED <<caller_target, caller_estimation, pc, target_wires,
                   estimation_wires, j, emitted, error, overlap_checked, record>>

\* variant of LoopSquare: unitary_powers.append(new_power) for insert(0, ...)
LoopSquare_append ==
    /\ pc = "square"
    /\ i < Len(estimation_wires) - 1
    /\ LET new_power == MatMul(unitary_powers[1], unitary_powers[1])
       IN unitary_powers' = Append(unitary_powers, new_power)
    /\ n_matmul' = n_matmul + 1
    /\ i' = i + 1
    /\ UNCHANGED <<args, pc, target_wires, estimation_wires, j, emitted, error,
                   overlap_checked, record>>

\* lines 117-119, one iteration of range(len(estimation_wires) - 1):
\* square the front entry and insert the result at the front
LoopSquare ==
    /\ pc = "square"
    /\ i < Len(estimation_wires) - 1
    /\ LET new_power == MatMul(unitary_powers[1], unitary_powers[1])
       IN unitary_powers' = <<new_power>> \o unitary_powers
    /\ n_matmul' = n_matmul + 1
    /\ i' = i + 1
    /\ UNCHANGED <<args, pc, target_wires, estimation_wires, j, emitted, error,
                   overlap_checked, record>>

\* line 117: the range is exhausted
LoopSquareExit ==
    /\ pc = "square"
    /\ ~(i < Len(estimation_wires) - 1)
    /\ j' = 0
    /\ pc' = "emit_h"
    /\ UNCHANGED <<args, target_wires, estimation_wires, unitary_powers, i, emitted,
                   error, n_matmul, overlap_checked, record>>

\* variant of ZipHasNext: the last pair is dropped
ZipHasNext_short == j < Len(estimation_wires) - 1 /\ j < Len(unitary_powers)

\* zip(estimation_wires, unitary_powers) stops at the shorter of the two
ZipHasNext == j < Len(estimation_wires) /\ j < Len(unitary_powers)

\* lines 121-122: next (wire, u) pair; qml.Hadamard(wire)
EmitHadamard ==
    /\ pc = "emit_h"
    /\ ZipHasNext
    /\ emitted' = Append(emitted, Hadamard(estimation_wires[j + 1]))
    /\ pc' = "emit_cu"
    /\ UNCHANGED <<args, locals, error, n_matmul, overlap_checked, record>>

\* line 123: qml.ControlledQubitUnitary(u, control_wires=wire, wires=target_wires)
EmitControlled ==
    /\ pc = "emit_cu"
    /\ LET wire == estimation_wires[j + 1]
           u == unitary_powers[j + 1]
       IN IF DimensionMatches(u, target_wires)
          THEN /\ emitted' = Append(emitted, ControlledQubitUnitary(u, wire, target_wires))
               /\ j' = j + 1
               /\ pc' = "emit_h"
               /\ error' = error
          ELSE /\ error' = "ValueError"
               /\ pc' = "failed"
               /\ UNCHANGED <<emitted, j>>
    /\ UNCHANGED <<args, target_wires, estimation_wires, unitary_powers, i, n_matmul,
                   overlap_checked, record>>

\* line 121: zip is exhausted
ZipExit ==
    /\ pc = "emit_h"
    /\ ~ZipHasNext
    /\ pc' = "qft"
    /\ UNCHANGED <<args, locals, emitted, error, n_matmul, overlap_checked, record>>

\* variant of EmitQFT: the transform takes the register in reverse order
EmitQFT_reversed ==
    /\ pc = "qft"
    /\ emitted' = Append(emitted, QFTinv([k \in 1..Len(estimation_wires) |->
                              estimation_wires[Len(estimation_wires) + 1 - k]]))
    /\ pc' = "done"
    /\ UNCHANGED <<args, locals, error, n_matmul, overlap_checked, record>>

\* line 125: qml.QFT(wires=estimation_wires).inv(), then return
EmitQFT ==
    /\ pc = "qft"
    /\ emitted' = Append(emitted, QFTinv(estimation_wires))
    /\ pc' = "done"
    /\ UNCHANGED <<args, locals, error, n_matmul, overlap_checked, record>>

Next ==
    \/ WrapTarget
    \/ WrapEstimation
    \/ CheckShared
    \/ InitPowers
    \/ LoopSquare
    \/ LoopSquareExit
    \/ EmitHadamard
    \/ EmitControlled
    \/ ZipExit
    \/ EmitQFT

Spec == Init /\ [][Next]_vars

(* --------------------------- repeated calls --------------------------- *)
(* The template is called again and again by the same caller.  The caller  *)
(* remembers the arguments and the outcome of its first call.              *)

RepeatWires == 0..(RepeatNumWires - 1)
RepeatUnitaries == {Rot4}
RepeatTargets == {IntArg(0), SeqArg(<<0, 1>>)}
RepeatEstimations == RegisterArgs(RepeatWires, RepeatEstLen)

Outcome == [status |-> pc, emitted |-> emitted, error |-> error]

InitCalls ==
    /\ \E u \in RepeatUnitaries, t \in RepeatTargets, e \in RepeatEstimations :
          Enter(u, t, e)
    /\ history = <<>>

\* the call has returned or raised; the caller invokes the template again
\* (line 25: a new activation, with its own locals and its own recording)
Call ==
    /\ pc \in {"done", "failed"}
    /\ history' = IF history = <<>>
                  THEN <<[args |-> args, outcome |-> Outcome]>>
                  ELSE history
    /\ \E u \in RepeatUnitaries \cup {unitary}, t \in RepeatTargets,
          e \in RepeatEstimations :
          /\ unitary' = u
          /\ caller_target' = t
          /\ caller_estimation' = e
          /\ entry' = <<u, t, e>>
    /\ pc' = "wrap_target"
    /\ target_wires' = <<>>
    /\ estimation_wires' = <<>>
    /\ unitary_powers' = <<>>
    /\ i' = 0
    /\ j' = 0
    /\ emitted' = <<>>
    /\ error' = "none"
    /\ n_matmul' = 0
    /\ overlap_checked' = FALSE

NextCalls == Next \/ Call

SpecCalls == InitCalls /\ [][NextCalls]_vars

(* ------------------------------- claims ------------------------------- *)
(* The registers as the caller gave them, read off the caller's arguments  *)
(* and not off the template's locals.                                      *)

ArgWireSet(x) == IF x.kind = "int" THEN {x.w} ELSE Range(x.ws)
ArgWireSeq(x) == IF x.kind = "int" THEN <<x.w>> ELSE x.ws
Overlapping == ArgWireSet(caller_target) \cap ArgWireSet(caller_estimation) # {}
GivenTarget == ArgWireSeq(caller_target)
GivenEstimation == ArgWireSeq(caller_estimation)
n == Len(GivenEstimation)

IsHadamard(op) == op.name = "Hadamard"
IsControlled(op) == op.name = "ControlledQubitUnitary"
IsQFT(op) == op.name = "QFT"
Controlled == SelectSeq(emitted, IsControlled)
Count(P(_)) == Len(SelectSeq(emitted, P))

\* C1: registers that share a wire make the call fail with
\* QuantumFunctionError as soon as line 112 is evaluated; registers that share
\* no wire pass the check and never raise that error.
C1_Disjointness ==
    /\ (Overlapping /\ overlap_checked) =>
           (pc = "failed" /\ error = "QuantumFunctionError")
    /\ ~Overlapping => error # "QuantumFunctionError"
    /\ (~Overlapping /\ overlap_checked) =>
           pc \in {"init_powers", "square", "emit_h", "emit_cu", "qft", "done", "failed"}
    /\ (~Overlapping /\ pc = "failed") => error = "ValueError"

\* a call whose registers share one wire out of several has been rejected
C1_Witness ==
    /\ pc = "failed"
    /\ error = "QuantumFunctionError"
    /\ Len(target_wires) = 2
    /\ Len(estimation_wires) = 3
    /\ Cardinality(ArgWireSet(caller_target) \cap ArgWireSet(caller_estimation)) = 1

\* C2: the k-th controlled unitary emitted (k = 1..n) carries U^(2^(n-k)), is
\* controlled by the k-th estimation wire as the caller ordered them and acts
\* on the whole target register; a call that returns has emitted all n.
C2_Exponents ==
    /\ Len(Controlled) <= n
    /\ \A k \in 1..Len(Controlled) :
          /\ Controlled[k].U = MatPow(unitary, Pow2(n - k))
          /\ Controlled[k].control_wires = <<GivenEstimation[k]>>
          /\ Controlled[k].wires = GivenTarget
    /\ (pc = "done" /\ n >= 1) => Len(Controlled) = n

\* a returned call on three estimation wires given out of their natural order,
\* with a unitary whose powers 1, 2 and 4 are three different matrices
C2_Witness ==
    /\ pc = "done"
    /\ n = 3
    /\ GivenEstimation[1] > GivenEstimation[2]
    /\ GivenEstimation[3] > GivenEstimation[2]
    /\ unitary = Rot4
    /\ Controlled[1].U # Controlled[2].U
    /\ Controlled[2].U # Controlled[3].U
    /\ Controlled[1].U # Controlled[3].U

\* C3: a call that returns with n >= 1 estimation wires has emitted exactly
\* 2n+1 operations: n Hadamards, n controlled unitaries, one inverse QFT.
C3_EmissionCount ==
    (pc = "done" /\ n >= 1) =>
        /\ Len(emitted) = 2 * n + 1
        /\ Count(IsHadamard) = n
        /\ Count(IsControlled) = n
        /\ Count(IsQFT) = 1

\* a returned call with three estimation wires and seven operations
C3_Witness == pc = "done" /\ n = 3 /\ Len(emitted) = 7

\* C4: at every moment the emitted operations are a prefix of
\* H(e1), CU(e1), H(e2), CU(e2), ..., H(en), CU(en), QFT^-1(e1..en):
\* positions 2k-1 and 2k hold the Hadamard and the controlled unitary of the
\* k-th estimation wire, the inverse transform sits at position 2n+1 and is
\* last, and it is there exactly when the call has returned.
C4_Order ==
    /\ Len(emitted) <= 2 * n + 1
    /\ \A p \in 1..Len(emitted) :
          /\ (p <= 2 * n /\ p % 2 = 1) =>
                 /\ IsHadamard(emitted[p])
                 /\ emitted[p].wires = <<GivenEstimation[(p + 1) \div 2]>>
          /\ (p <= 2 * n /\ p % 2 = 0) =>
                 /\ IsControlled(emitted[p])
                 /\ emitted[p].control_wires = <<GivenEstimation[p \div 2]>>
          /\ (p = 2 * n + 1) =>
                 /\ IsQFT(emitted[p])
                 /\ emitted[p].inverse
                 /\ emitted[p].wires = GivenEstimation
    /\ (pc = "done") <=> (Len(emitted) = 2 * n + 1)

\* a returned call on two estimation wires given in descending order
C4_Witness ==
    /\ pc = "done"
    /\ n = 2
    /\ GivenEstimation[1] > GivenEstimation[2]
    /\ IsQFT(emitted[5])

\* C5: a call that has failed has emitted nothing.
C5_NothingOnFailure == pc = "failed" => Len(emitted) = 0

\* C6: the comparison of the registers comes before any matrix product: a
\* call rejected for overlapping registers has multiplied nothing, and no
\* product (nor any ladder) exists while line 112 has not been evaluated.
C6_CheckBeforeMatrixWork ==
    /\ error = "QuantumFunctionError" => (n_matmul = 0 /\ unitary_powers = <<>>)
    /\ Overlapping => n_matmul = 0
    /\ ~overlap_checked => (n_matmul = 0 /\ unitary_powers = <<>>)

\* a call with overlapping registers, long enough to need two squarings, has
\* been rejected
C6_Witness ==
    /\ pc = "failed"
    /\ error = "QuantumFunctionError"
    /\ Len(estimation_wires) = 3
    /\ Len(target_wires) = 1
    /\ n_matmul = 0

\* C7: the caller's matrix and registers are as they were on entry; a call
\* begins with no ladder, no product and nothing emitted left from earlier
\* calls; and a call that ends with the arguments of the caller's first call
\* ends with the outcome of that first call, whatever calls came in between.
C7_Pure ==
    /\ args = entry
    /\ pc = "wrap_target" =>
           (unitary_powers = <<>> /\ n_matmul = 0 /\ emitted = <<>> /\ error = "none")
    /\ (history # <<>> /\ pc \in {"done", "failed"} /\ history[1].args = args) =>
           Outcome = history[1].outcome

\* a later call has returned with the arguments of the first call, on two
\* estimation wires
C7_Witness ==
    /\ history # <<>>
    /\ pc = "done"
    /\ history[1].args = args
    /\ n = 2
    /\ Len(emitted) = 5

\* C8: while the ladder is being built, after i squarings it holds i+1
\* entries U^(2^i), ..., U^2, U^1 front to back and i products have been
\* computed; once built for n >= 1 wires it holds n entries, entry k being
\* U^(2^(n-k)), and exactly n-1 products have been computed.
C8_Ladder ==
    /\ pc = "square" =>
           /\ Len(unitary_powers) = i + 1
           /\ n_matmul = i
           /\ i <= n - 1 \/ n = 0
           /\ \A k \in 1..Len(unitary_powers) :
                 unitary_powers[k] = MatPow(unitary, Pow2(i + 1 - k))
    /\ (n >= 1 /\ (pc \in {"emit_h", "emit_cu", "qft", "done"}
                   \/ (pc = "failed" /\ error = "ValueError"))) =>
           /\ Len(unitary_powers) = n
           /\ n_matmul = n - 1
           /\ \A k \in 1..n : unitary_powers[k] = MatPow(unitary, Pow2(n - k))

\* the ladder for three estimation wires is finished: two products, three
\* different matrices
C8_Witness ==
    /\ pc = "emit_h"
    /\ j = 0
    /\ n = 3
    /\ n_matmul = 2
    /\ unitary = Rot4
    /\ unitary_powers = <<MatPow(Rot4, 4), MatPow(Rot4, 2), Rot4>>

\* C9 as stated: with an empty estimation register the call does not raise,
\* the ladder has length zero, nothing is multiplied, no Hadamard and no
\* controlled unitary is emitted, and a returned call has emitted only the
\* inverse transform over zero wires.
C9_ZeroLengthLadder ==
    n = 0 =>
        /\ pc # "failed"
        /\ error = "none"
        /\ Len(unitary_powers) = 0
        /\ n_matmul = 0
        /\ Count(IsHadamard) = 0
        /\ Count(IsControlled) = 0
        /\ pc = "done" => emitted = <<QFTinv(<<>>)>>

\* C9 as amended: the same, except that once line 115 has run the ladder
\* holds one entry, the unitary itself, which is never paired with a wire.
C9_UnusedLadderEntry ==
    n = 0 =>
        /\ pc # "failed"
        /\ error = "none"
        /\ pc \in {"square", "emit_h", "emit_cu", "qft", "done"} =>
               unitary_powers = <<unitary>>
        /\ pc \in {"wrap_target", "wrap_estimation", "check", "init_powers"} =>
               unitary_powers = <<>>
        /\ n_matmul = 0
        /\ Count(IsHadamard) = 0
        /\ Count(IsControlled) = 0
        /\ pc = "done" => emitted = <<QFTinv(<<>>)>>

\* a call with an empty estimation register and a two-wire target register
\* (on which the 2x2 unitary does not fit) has returned
C9_Witness ==
    /\ pc = "done"
    /\ n = 0
    /\ Len(target_wires) = 2
    /\ unitary = Rot4
    /\ Len(emitted) = 1

OnWire(op, w) == op.wires = <<w>>
ControlledBy(op, w) == op.control_wires = <<w>>
Positions(P(_)) == {p \in 1..Len(emitted) : P(emitted[p])}

\* C10: every emitted controlled unitary has one control wire, which is not
\* among its target wires, and its target wires are the target register as
\* the caller gave it; no Hadamard is on a target wire; no estimation wire
\* gets more than one Hadamard or controls more than one controlled unitary,
\* and in a returned call each gets exactly one of each.
C10_WireRoles ==
    /\ \A p \in Positions(IsControlled) :
          /\ Len(emitted[p].control_wires) = 1
          /\ emitted[p].control_wires[1] \notin Range(emitted[p].wires)
          /\ emitted[p].wires = GivenTarget
    /\ \A p \in Positions(IsHadamard) :
          /\ Len(emitted[p].wires) = 1
          /\ emitted[p].wires[1] \notin ArgWireSet(caller_target)
          /\ emitted[p].wires[1] \in ArgWireSet(caller_estimation)
    /\ \A w \in ArgWireSet(caller_estimation) :
          LET h == Cardinality({p \in Positions(IsHadamard) : OnWire(emitted[p], w)})
              c == Cardinality({p \in Positions(IsControlled) : ControlledBy(emitted[p], w)})
          IN /\ h <= 1
             /\ c <= h
             /\ pc = "done" => (h = 1 /\ c = 1)

\* a returned call with two estimation wires and a two-wire target register
C10_Witness ==
    /\ pc = "done"
    /\ n = 2
    /\ Len(GivenTarget) = 2
    /\ Cardinality(Positions(IsControlled)) = 2

====
